---- MODULE Spec2Model ----
(***************************************************************************)
(* Model of chaosk8s/crd/actions.py: the custom-resource activities        *)
(* (apply_from_json, apply_from_yaml, the eight create / delete / patch /  *)
(* replace operations) and the two internal functions load_body and        *)
(* get_plural.                                                             *)
(*                                                                         *)
(* Python strings that the code takes apart (kind, apiVersion, group,      *)
(* version, plural) are sequences of one-character strings.  Strings that  *)
(* are only passed along (paths, namespaces, reason phrases, raw bodies)   *)
(* are TLA+ strings.  An exception message is the sequence of the pieces   *)
(* its format string is made of.  Python dicts are records tagged          *)
(* type = "dict"; a str holding an encoded document is tagged "str".       *)
(***************************************************************************)
EXTENDS Integers, Sequences, FiniteSets, TLC

VARIABLES
    singular,         \* get_plural: the argument of the last direct call
    plural_r,         \* get_plural: its outcome
    fs,               \* the file system: path -> what is there
    lb_args,          \* load_body: the arguments of the last direct call
    lb_result,        \* load_body: its outcome
    pc,               \* per caller: position inside the running activity
    inv,              \* per caller: the activity invoked and its arguments
    req,              \* per caller: the request the activity put on the wire
    resp,             \* per caller: the server's answer to that request
    calls,            \* per caller: network calls made by the running activity
    result,           \* per caller: what the activity returned or raised
    default_headers   \* per API client: the client's default Content-Type

vars == <<singular, plural_r, fs, lb_args, lb_result,
          pc, inv, req, resp, calls, result, default_headers>>

(***************************************************************************)
(* Bounds of the model.                                                    *)
(***************************************************************************)
MaxKindLen == 3      \* get_plural is called on every string up to this length
MaxApiLen == 5       \* apiVersion ranges over every string up to this length
NumProcs == 2        \* callers of the activities

Procs == 1 .. NumProcs

(***************************************************************************)
(* Strings as sequences of characters.                                     *)
(***************************************************************************)
UPPER == <<"A","B","C","D","E","F","G","H","I","J","K","L","M",
           "N","O","P","Q","R","S","T","U","V","W","X","Y","Z">>
LOWER == <<"a","b","c","d","e","f","g","h","i","j","k","l","m",
           "n","o","p","q","r","s","t","u","v","w","x","y","z">>

\* str.lower() on one character
LowerChar(c) ==
    IF \E i \in 1 .. Len(UPPER) : UPPER[i] = c
    THEN LOWER[CHOOSE i \in 1 .. Len(UPPER) : UPPER[i] = c]
    ELSE c

\* str.lower()
Lower(s) == [i \in 1 .. Len(s) |-> LowerChar(s[i])]

\* every string over alphabet A of length at most n
StringsUpTo(A, n) == UNION {[1 .. k -> A] : k \in 0 .. n}

ENDPOINTS == <<"e","n","d","p","o","i","n","t","s">>

(***************************************************************************)
(* get_plural (actions.py 345-357).  The outcome is a record: exc is       *)
(* "none" when a value is returned, else the exception's type.             *)
(***************************************************************************)
Returned(v) == [exc |-> "none", val |-> v]
Raised(e) == [exc |-> e, val |-> <<>>]

get_plural(s) ==
    LET low == Lower(s)                                   \* line 346
    IN  IF low = ENDPOINTS THEN Returned(low)              \* lines 348-349
        ELSE IF Len(low) = 0 THEN Raised("IndexError")     \* line 351: ""[-1]
        ELSE LET last == low[Len(low)]                     \* line 351
             IN  IF last = "s" THEN Returned(low \o <<"e","s">>)          \* 352-353
                 ELSE IF last = "y"
                      THEN Returned(SubSeq(low, 1, Len(low) - 1) \o <<"i","e","s">>)  \* 354-355
                      ELSE Returned(low \o <<"s">>)        \* line 357

\* kind strings get_plural is called on
KindAlphabet == {"s", "y", "d", "S", "Y", "D"}
WIDGET == <<"W","i","d","g","e","t">>
POLICY == <<"P","o","l","i","c","y">>
INGRESS == <<"i","n","g","r","e","s","s">>
KindWords == {ENDPOINTS, <<"E","n","d","p","o","i","n","t","s">>,
              <<"E","N","D","P","O","I","N","T","S">>,
              <<"p","o","d">>, POLICY, INGRESS, WIDGET,
              <<"D","e","p","l","o","y","m","e","n","t">>}
KindInputs == StringsUpTo(KindAlphabet, MaxKindLen) \cup KindWords

(***************************************************************************)
(* Files and YAML.                                                         *)
(***************************************************************************)
NoneVal == [type |-> "NoneType"]
EmptyDict == [type |-> "dict", keys |-> "none"]
PatchDoc == [type |-> "dict", keys |-> "spec"]
FileDoc == [type |-> "dict", keys |-> "spec,status"]

Paths == {"a.yaml", "b"}
YamlTexts == {"spec: 1", "spec: 1\nstatus: 2"}
FileStates == {[kind |-> "absent", text |-> ""], [kind |-> "dir", text |-> ""]}
                  \cup {[kind |-> "file", text |-> t] : t \in YamlTexts}

\* yaml.safe_load on the text of a file
yaml_safe_load(text) ==
    CASE text = "spec: 1" -> PatchDoc
      [] text = "spec: 1\nstatus: 2" -> FileDoc
      [] OTHER -> NoneVal

\* os.path.isfile
isfile(path) == path \in Paths /\ fs[path].kind = "file"

(***************************************************************************)
(* load_body (actions.py 326-341).  Arguments: obj is NoneVal or a value,  *)
(* file is [set |-> FALSE] for None or [set |-> TRUE, path |-> p].         *)
(***************************************************************************)
NoFile == [set |-> FALSE, path |-> ""]
File(p) == [set |-> TRUE, path |-> p]

Ok(v) == [exc |-> "none", msg |-> <<>>, val |-> v]
Fail(e, m) == [exc |-> e, msg |-> m, val |-> NoneVal]

\* "not body_as_yaml_file": None and the empty string are both falsy
Falsy(file) == ~file.set \/ file.path = ""

\* Mutation of load_body: the file is looked at before the object.
load_body_file_first(obj, file) ==
    IF obj = NoneVal /\ Falsy(file)
    THEN Fail("ActivityFailed",
              <<"Either body_as_object or body_as_yaml_file must be set">>)
    ELSE IF ~Falsy(file)
         THEN (IF ~isfile(file.path)
               THEN Fail("ActivityFailed",
                         <<"Path '", file.path, "' is not a valid resource file">>)
               ELSE Ok(yaml_safe_load(fs[file.path].text)))
         ELSE Ok(obj)

load_body(obj, file) ==
    IF obj = NoneVal /\ Falsy(file)                                   \* line 329
    THEN Fail("ActivityFailed",
              <<"Either body_as_object or body_as_yaml_file must be set">>)
    ELSE IF obj # NoneVal THEN Ok(obj)                                \* 334-335
    ELSE IF ~isfile(file.path)                                        \* line 337
         THEN Fail("ActivityFailed",
                   <<"Path '", file.path, "' is not a valid resource file">>)
         ELSE Ok(yaml_safe_load(fs[file.path].text))                  \* 340-341

(***************************************************************************)
(* Resource documents handed to apply_from_json / apply_from_yaml.  A key  *)
(* of the mapping is present (has = TRUE) or absent.  The str holding the  *)
(* encoded document is a value of its own: json.loads / yaml.safe_load     *)
(* take it apart, and nothing else can look inside it.                     *)
(***************************************************************************)
Absent == [has |-> FALSE, v |-> <<>>]
Present(s) == [has |-> TRUE, v |-> s]

NoMetadata == [has |-> FALSE, namespace |-> [has |-> FALSE, v |-> ""]]
MetadataNoNs == [has |-> TRUE, namespace |-> [has |-> FALSE, v |-> ""]]
MetadataNs(n) == [has |-> TRUE, namespace |-> [has |-> TRUE, v |-> n]]

ApiAlphabet == {"a", "/"}
ApiVersions == {Absent} \cup {Present(s) : s \in StringsUpTo(ApiAlphabet, MaxApiLen)}
Kinds == {Absent, Present(<<>>), Present(WIDGET), Present(POLICY), Present(INGRESS)}
Metadatas == {NoMetadata, MetadataNoNs, MetadataNs("ns1")}

Documents ==
    [type : {"dict"}, apiVersion : ApiVersions, kind : Kinds, metadata : Metadatas]

JsonText(d) == [type |-> "str", enc |-> "json", doc |-> d]
YamlText(d) == [type |-> "str", enc |-> "yaml", doc |-> d]

\* json.loads(resource), line 32
json_loads_resource(text) == text.doc

\* yaml.safe_load(resource), line 53
yaml_safe_load_resource(text) == text.doc

\* obj.get("apiVersion") / obj.get("kind"): None when the key is absent
\* "not x" is true of None and of the empty string
Missing(field) == ~field.has \/ field.v = <<>>

\* obj.get("metadata", {}).get("namespace", "default"), lines 35 and 57
namespace_of(obj) ==
    IF obj.metadata.has /\ obj.metadata.namespace.has
    THEN obj.metadata.namespace.v
    ELSE "default"

\* positions of "/" in s
Slashes(s) == {i \in 1 .. Len(s) : s[i] = "/"}
Max(S) == CHOOSE m \in S : \A n \in S : n <= m

\* api_version.rsplit("/", 1), lines 43 and 65: the list of the parts
rsplit(s) ==
    IF Slashes(s) = {} THEN <<s>>
    ELSE LET k == Max(Slashes(s))
         IN  <<SubSeq(s, 1, k - 1), SubSeq(s, k + 1, Len(s))>>

(***************************************************************************)
(* Lines 33-44 and 55-66: what apply_* derives from the parsed document    *)
(* before it calls create_custom_object.  exc = "none" and the             *)
(* coordinates, or the exception raised.                                   *)
(***************************************************************************)
Coordinates(g, v, pl, n) ==
    [exc |-> "none", msg |-> <<>>, group |-> g, version |-> v, plural |-> pl, ns |-> n]
NoCoordinates(e, m) ==
    [exc |-> e, msg |-> m, group |-> <<>>, version |-> <<>>, plural |-> <<>>, ns |-> ""]

\* Mutation of derive_coordinates: the kind check is left out.
derive_coordinates_no_kind_check(obj) ==
    IF Missing(obj.apiVersion)
    THEN NoCoordinates("ActivityFailed", <<"missing apiVersion in resource">>)
    ELSE LET parts == rsplit(obj.apiVersion.v)
             pl == get_plural(obj.kind.v)
         IN  IF Len(parts) # 2
             THEN NoCoordinates("ValueError", <<"not enough values to unpack">>)
             ELSE IF pl.exc # "none" THEN NoCoordinates(pl.exc, <<>>)
             ELSE Coordinates(parts[1], parts[2], pl.val, namespace_of(obj))

derive_coordinates(obj) ==
    IF Missing(obj.apiVersion)                                        \* lines 37-38
    THEN NoCoordinates("ActivityFailed", <<"missing apiVersion in resource">>)
    ELSE IF Missing(obj.kind)                                         \* lines 40-41
    THEN NoCoordinates("ActivityFailed", <<"missing kind in resource">>)
    ELSE LET parts == rsplit(obj.apiVersion.v)                        \* line 43
             pl == get_plural(obj.kind.v)                             \* line 44
         IN  IF Len(parts) # 2       \* "group, version = [x]" cannot unpack
             THEN NoCoordinates("ValueError", <<"not enough values to unpack">>)
             ELSE IF pl.exc # "none" THEN NoCoordinates(pl.exc, <<>>)
             ELSE Coordinates(parts[1], parts[2], pl.val, namespace_of(obj))

(***************************************************************************)
(* The API server and the generated client.                                *)
(***************************************************************************)
JSON == "application/json"
JSON_PATCH == "application/json-patch+json"
MERGE_PATCH == "application/merge-patch+json"

WidgetJson == "{\"kind\":\"Widget\"}"
ConflictJson == "{\"kind\":\"Status\",\"code\":409}"
NotFoundJson == "{\"kind\":\"Status\",\"code\":404}"
GatewayHtml == "<html>502 Bad Gateway</html>"

\* what the server may answer to any request
Responses ==
    { [status |-> 200, reason |-> "OK", body |-> WidgetJson],
      [status |-> 201, reason |-> "Created", body |-> WidgetJson],
      [status |-> 409, reason |-> "Conflict", body |-> ConflictJson],
      [status |-> 404, reason |-> "Not Found", body |-> NotFoundJson],
      [status |-> 502, reason |-> "Bad Gateway", body |-> GatewayHtml] }
NoResp == [status |-> 0, reason |-> "", body |-> ""]

\* json.loads on the raw bytes of a response (r.data, x.body)
json_loads(text) ==
    CASE text = WidgetJson -> Ok([type |-> "dict", kind |-> "Widget", code |-> 0])
      [] text = ConflictJson -> Ok([type |-> "dict", kind |-> "Status", code |-> 409])
      [] text = NotFoundJson -> Ok([type |-> "dict", kind |-> "Status", code |-> 404])
      [] OTHER -> Fail("JSONDecodeError", <<"Expecting value">>)

\* API clients: 0 is a client shared between invocations, p is the client
\* made for caller p's running invocation
SHARED == 0
Clients == {SHARED} \cup Procs

\* create_k8s_api_client(secrets): a client made for this call, or one reused
create_k8s_api_client(p) == {SHARED, p}

\* the Content-Type the generated client picks for a method when the client
\* has no default Content-Type
method_content_types(method) ==
    IF method \in {"patch_namespaced_custom_object", "patch_cluster_custom_object"}
    THEN {JSON_PATCH, MERGE_PATCH}
    ELSE {JSON}

\* ApiClient.call_api: the client's default headers override the request's
wire_content_type(client, picked) ==
    IF default_headers[client] # "" THEN default_headers[client] ELSE picked

(***************************************************************************)
(* The eight operations: the call each makes (the arguments of the         *)
(* generated client's method), and its except clause.                      *)
(***************************************************************************)
Operations ==
    {"create_custom_object", "delete_custom_object",
     "create_cluster_custom_object", "delete_cluster_custom_object",
     "patch_custom_object", "replace_custom_object",
     "patch_cluster_custom_object", "replace_cluster_custom_object"}
BodyOps == Operations \ {"delete_custom_object", "delete_cluster_custom_object"}
PatchOps == {"patch_custom_object", "patch_cluster_custom_object"}
CreateOps == {"create_custom_object", "create_cluster_custom_object"}

Call(m, i, ns, name, body, force) ==
    [method |-> m, group |-> i.group, version |-> i.version, namespace |-> ns,
     plural |-> i.plural, name |-> name, body |-> body, force |-> force]

ForceParam(b) == IF b THEN "true" ELSE "false"

\* lines 91-93
create_custom_object_call(i) ==
    Call("create_namespaced_custom_object", i, i.ns, "", i.body, "unset")
\* lines 123-125
delete_custom_object_call(i) ==
    Call("delete_namespaced_custom_object", i, i.ns, i.name, NoneVal, "unset")
\* lines 151-153
create_cluster_custom_object_call(i) ==
    Call("create_cluster_custom_object", i, "", "", i.body, "unset")
\* lines 177-179
delete_cluster_custom_object_call(i) ==
    Call("delete_cluster_custom_object", i, "", i.name, NoneVal, "unset")
\* lines 214-216: force is not among the arguments
patch_custom_object_call(i) ==
    Call("patch_namespaced_custom_object", i, i.ns, i.name, i.body, "unset")
\* lines 246-248
replace_custom_object_call(i) ==
    Call("replace_namespaced_custom_object", i, i.ns, i.name, i.body, ForceParam(i.force))
\* lines 282-284: force is not among the arguments
patch_cluster_custom_object_call(i) ==
    Call("patch_cluster_custom_object", i, "", i.name, i.body, "unset")
\* lines 313-315
replace_cluster_custom_object_call(i) ==
    Call("replace_cluster_custom_object", i, "", i.name, i.body, ForceParam(i.force))

api_call(i) ==
    CASE i.op = "create_custom_object" -> create_custom_object_call(i)
      [] i.op = "delete_custom_object" -> delete_custom_object_call(i)
      [] i.op = "create_cluster_custom_object" -> create_cluster_custom_object_call(i)
      [] i.op = "delete_cluster_custom_object" -> delete_cluster_custom_object_call(i)
      [] i.op = "patch_custom_object" -> patch_custom_object_call(i)
      [] i.op = "replace_custom_object" -> replace_custom_object_call(i)
      [] i.op = "patch_cluster_custom_object" -> patch_cluster_custom_object_call(i)
      [] i.op = "replace_cluster_custom_object" -> replace_cluster_custom_object_call(i)

\* Mutation of create_custom_object_except: a conflict is an error like the others.
create_custom_object_except_no_409(x) ==
    Fail("ActivityFailed",
         <<"Failed to create custom resource object: '", x.reason, "' ", x.body>>)

\* lines 95-102
create_custom_object_except(x) ==
    IF x.status = 409
    THEN json_loads(x.body)
    ELSE Fail("ActivityFailed",
              <<"Failed to create custom resource object: '", x.reason, "' ", x.body>>)

\* lines 127-130
delete_custom_object_except(x) ==
    Fail("ActivityFailed",
         <<"Failed to delete custom resource object: '", x.reason, "' ", x.body>>)

\* lines 155-162: the message is a plain string, not an f-string
create_cluster_custom_object_except(x) ==
    IF x.status = 409
    THEN json_loads(x.body)
    ELSE Fail("ActivityFailed",
              <<"Failed to create custom resource object: '{x.reason}' {x.body}">>)

\* lines 181-184
delete_cluster_custom_object_except(x) ==
    Fail("ActivityFailed",
         <<"Failed to delete custom resource object: '", x.reason, "' ", x.body>>)

\* lines 218-221
patch_custom_object_except(x) ==
    Fail("ActivityFailed",
         <<"Failed to patch custom resource object: '", x.reason, "' ", x.body>>)

\* lines 250-253
replace_custom_object_except(x) ==
    Fail("ActivityFailed",
         <<"Failed to replace custom resource object: '", x.reason, "' ", x.body>>)

\* lines 286-289
patch_cluster_custom_object_except(x) ==
    Fail("ActivityFailed",
         <<"Failed to patch custom resource object: '", x.reason, "' ", x.body>>)

\* lines 317-320
replace_cluster_custom_object_except(x) ==
    Fail("ActivityFailed",
         <<"Failed to replace custom resource object: '", x.reason, "' ", x.body>>)

api_except(op, x) ==
    CASE op = "create_custom_object" -> create_custom_object_except(x)
      [] op = "delete_custom_object" -> delete_custom_object_except(x)
      [] op = "create_cluster_custom_object" -> create_cluster_custom_object_except(x)
      [] op = "delete_cluster_custom_object" -> delete_cluster_custom_object_except(x)
      [] op = "patch_custom_object" -> patch_custom_object_except(x)
      [] op = "replace_custom_object" -> replace_custom_object_except(x)
      [] op = "patch_cluster_custom_object" -> patch_cluster_custom_object_except(x)
      [] op = "replace_cluster_custom_object" -> replace_cluster_custom_object_except(x)

\* the generated client raises ApiException for a status outside 200..299;
\* otherwise the operation returns json.loads(r.data)
outcome(op, r) ==
    IF r.status >= 200 /\ r.status <= 299
    THEN json_loads(r.body)
    ELSE api_except(op, r)

\* Mutation of after_response: a server error is retried.
after_response_retry(op, r) == IF r.status >= 500 THEN "call" ELSE "done"

\* where the operation is after the response: it has returned or raised
after_response(op, r) == "done"

(***************************************************************************)
(* State of a caller.                                                      *)
(***************************************************************************)
NoInv ==
    [entry |-> "none", op |-> "none", group |-> <<>>, version |-> <<>>,
     plural |-> <<>>, ns |-> "", name |-> "", force |-> FALSE,
     resource |-> NoneVal, file |-> NoFile, body |-> NoneVal, client |-> SHARED]
NoReq ==
    [method |-> "none", group |-> <<>>, version |-> <<>>, namespace |-> "",
     plural |-> <<>>, name |-> "", body |-> NoneVal, force |-> "unset",
     content_type |-> "", client |-> SHARED]
Pending == [exc |-> "pending", msg |-> <<>>, val |-> NoneVal]

\* arguments the eight operations are called with
CrdGroups == {<<"g">>}
CrdVersions == {<<"v","1">>}
CrdPlurals == {<<"w","s">>}
Namespaces == {"default"}
Names == {"w1"}
CallResources == {NoneVal, PatchDoc}
CallFiles == {NoFile, File("a.yaml")}

\* arguments of the direct calls of load_body
LoadObjects == {NoneVal, EmptyDict, PatchDoc}
LoadFiles == {NoFile, File("")} \cup {File(q) : q \in Paths}

DefaultFs ==
    [q \in Paths |-> IF q = "a.yaml"
                     THEN [kind |-> "file", text |-> "spec: 1\nstatus: 2"]
                     ELSE [kind |-> "absent", text |-> ""]]

\* lines 213 and 281: api.api_client.set_default_header("Content-Type", ...)
set_default_header(op, client, headers) ==
    IF op \in PatchOps THEN [headers EXCEPT ![client] = JSON_PATCH] ELSE headers

(***************************************************************************)
(* Entry into one of the eight operations, up to its network call: the     *)
(* API client is obtained, the body is loaded (create, patch, replace),    *)
(* and a patch sets the client's default Content-Type.                     *)
(***************************************************************************)
Enter(p, entry, op, g, v, pl, ns, name, force, resource, file) ==
    \E c \in create_k8s_api_client(p) :
        LET lb == IF op \in BodyOps THEN load_body(resource, file) ELSE Ok(NoneVal)
            i == [entry |-> entry, op |-> op, group |-> g, version |-> v,
                  plural |-> pl, ns |-> ns, name |-> name, force |-> force,
                  resource |-> resource, file |-> file, body |-> lb.val,
                  client |-> c]
            made == IF c = p THEN [default_headers EXCEPT ![p] = ""]
                             ELSE default_headers
        IN  /\ inv' = [inv EXCEPT ![p] = i]
            /\ calls' = [calls EXCEPT ![p] = 0]
            /\ req' = [req EXCEPT ![p] = NoReq]
            /\ resp' = [resp EXCEPT ![p] = NoResp]
            /\ IF lb.exc # "none"
               THEN /\ pc' = [pc EXCEPT ![p] = "done"]
                    /\ result' = [result EXCEPT ![p] = lb]
                    /\ default_headers' = made
               ELSE /\ pc' = [pc EXCEPT ![p] = "call"]
                    /\ result' = [result EXCEPT ![p] = Pending]
                    /\ default_headers' = set_default_header(op, c, made)
            /\ UNCHANGED <<singular, plural_r, fs, lb_args, lb_result>>

CreateCustomObject(p) ==
    /\ pc[p] = "idle"
    /\ \E g \in CrdGroups, v \in CrdVersions, pl \in CrdPlurals, ns \in Namespaces,
          r \in CallResources, f \in CallFiles :
          Enter(p, "create_custom_object", "create_custom_object",
                g, v, pl, ns, "", FALSE, r, f)

DeleteCustomObject(p) ==
    /\ pc[p] = "idle"
    /\ \E g \in CrdGroups, v \in CrdVersions, pl \in CrdPlurals, ns \in Namespaces,
          n \in Names :
          Enter(p, "delete_custom_object", "delete_custom_object",
                g, v, pl, ns, n, FALSE, NoneVal, NoFile)

CreateClusterCustomObject(p) ==
    /\ pc[p] = "idle"
    /\ \E g \in CrdGroups, v \in CrdVersions, pl \in CrdPlurals,
          r \in CallResources, f \in CallFiles :
          Enter(p, "create_cluster_custom_object", "create_cluster_custom_object",
                g, v, pl, "", "", FALSE, r, f)

DeleteClusterCustomObject(p) ==
    /\ pc[p] = "idle"
    /\ \E g \in CrdGroups, v \in CrdVersions, pl \in CrdPlurals, n \in Names :
          Enter(p, "delete_cluster_custom_object", "delete_cluster_custom_object",
                g, v, pl, "", n, FALSE, NoneVal, NoFile)

PatchCustomObject(p) ==
    /\ pc[p] = "idle"
    /\ \E g \in CrdGroups, v \in CrdVersions, pl \in CrdPlurals, ns \in Namespaces,
          n \in Names, force \in BOOLEAN, r \in CallResources, f \in CallFiles :
          Enter(p, "patch_custom_object", "patch_custom_object",
                g, v, pl, ns, n, force, r, f)

ReplaceCustomObject(p) ==
    /\ pc[p] = "idle"
    /\ \E g \in CrdGroups, v \in CrdVersions, pl \in CrdPlurals, ns \in Namespaces,
          n \in Names, force \in BOOLEAN, r \in CallResources, f \in CallFiles :
          Enter(p, "replace_custom_object", "replace_custom_object",
                g, v, pl, ns, n, force, r, f)

PatchClusterCustomObject(p) ==
    /\ pc[p] = "idle"
    /\ \E g \in CrdGroups, v \in CrdVersions, pl \in CrdPlurals,
          n \in Names, force \in BOOLEAN, r \in CallResources, f \in CallFiles :
          Enter(p, "patch_cluster_custom_object", "patch_cluster_custom_object",
                g, v, pl, "", n, force, r, f)

ReplaceClusterCustomObject(p) ==
    /\ pc[p] = "idle"
    /\ \E g \in CrdGroups, v \in CrdVersions, pl \in CrdPlurals,
          n \in Names, force \in BOOLEAN, r \in CallResources, f \in CallFiles :
          Enter(p, "replace_cluster_custom_object", "replace_cluster_custom_object",
                g, v, pl, "", n, force, r, f)

(***************************************************************************)
(* apply_from_json / apply_from_yaml (lines 28-68): parse, derive the      *)
(* coordinates, then create_custom_object(group, version, plural, ns,      *)
(* resource), where resource is the str the activity was given.            *)
(***************************************************************************)
Apply(p, entry, resource, obj) ==
    LET co == derive_coordinates(obj)
    IN  IF co.exc # "none"
        THEN /\ pc' = [pc EXCEPT ![p] = "done"]
             /\ inv' = [inv EXCEPT ![p] =
                            [NoInv EXCEPT !.entry = entry, !.resource = resource]]
             /\ result' = [result EXCEPT ![p] = Fail(co.exc, co.msg)]
             /\ calls' = [calls EXCEPT ![p] = 0]
             /\ req' = [req EXCEPT ![p] = NoReq]
             /\ resp' = [resp EXCEPT ![p] = NoResp]
             /\ UNCHANGED <<singular, plural_r, fs, lb_args, lb_result, default_headers>>
        ELSE Enter(p, entry, "create_custom_object", co.group, co.version,
                   co.plural, co.ns, "", FALSE, resource, NoFile)

ApplyFromJson(p) ==
    /\ pc[p] = "idle"
    /\ \E d \in Documents :
          Apply(p, "apply_from_json", JsonText(d), json_loads_resource(JsonText(d)))

ApplyFromYaml(p) ==
    /\ pc[p] = "idle"
    /\ \E d \in Documents :
          Apply(p, "apply_from_yaml", YamlText(d), yaml_safe_load_resource(YamlText(d)))

(***************************************************************************)
(* The network call of the running operation, and its end.                 *)
(***************************************************************************)
Send(p) ==
    /\ pc[p] = "call"
    /\ \E picked \in method_content_types(api_call(inv[p]).method) :
          req' = [req EXCEPT ![p] =
                    [method |-> api_call(inv[p]).method,
                     group |-> api_call(inv[p]).group,
                     version |-> api_call(inv[p]).version,
                     namespace |-> api_call(inv[p]).namespace,
                     plural |-> api_call(inv[p]).plural,
                     name |-> api_call(inv[p]).name,
                     body |-> api_call(inv[p]).body,
                     force |-> api_call(inv[p]).force,
                     content_type |-> wire_content_type(inv[p].client, picked),
                     client |-> inv[p].client]]
    /\ calls' = [calls EXCEPT ![p] = @ + 1]
    /\ pc' = [pc EXCEPT ![p] = "wait"]
    /\ UNCHANGED <<singular, plural_r, fs, lb_args, lb_result, inv, resp, result,
                   default_headers>>

Respond(p) ==
    /\ pc[p] = "wait"
    /\ \E r \in Responses :
          /\ resp' = [resp EXCEPT ![p] = r]
          /\ result' = [result EXCEPT ![p] = outcome(inv[p].op, r)]
          /\ pc' = [pc EXCEPT ![p] = after_response(inv[p].op, r)]
    /\ UNCHANGED <<singular, plural_r, fs, lb_args, lb_result, inv, req, calls,
                   default_headers>>

\* the activity's result is handed to the caller; a client made for the
\* invocation goes away with it
Return(p) ==
    /\ pc[p] = "done"
    /\ pc' = [pc EXCEPT ![p] = "idle"]
    /\ inv' = [inv EXCEPT ![p] = NoInv]
    /\ req' = [req EXCEPT ![p] = NoReq]
    /\ resp' = [resp EXCEPT ![p] = NoResp]
    /\ result' = [result EXCEPT ![p] = Pending]
    /\ calls' = [calls EXCEPT ![p] = 0]
    /\ default_headers' = [default_headers EXCEPT ![p] = ""]
    /\ UNCHANGED <<singular, plural_r, fs, lb_args, lb_result>>

(***************************************************************************)
(* Direct calls of the two internal functions.                             *)
(***************************************************************************)
GetPlural ==
    /\ \E s \in KindInputs :
          /\ singular' = s
          /\ plural_r' = get_plural(s)
    /\ UNCHANGED <<fs, lb_args, lb_result, pc, inv, req, resp, calls, result,
                   default_headers>>

LoadBody ==
    /\ \E o \in LoadObjects, f \in LoadFiles :
          /\ lb_args' = [obj |-> o, file |-> f]
          /\ lb_result' = load_body(o, f)
    /\ UNCHANGED <<singular, plural_r, fs, pc, inv, req, resp, calls, result,
                   default_headers>>

(***************************************************************************)
(* Specifications.                                                         *)
(***************************************************************************)
InitCallers ==
    /\ pc = [p \in Procs |-> "idle"]
    /\ inv = [p \in Procs |-> NoInv]
    /\ req = [p \in Procs |-> NoReq]
    /\ resp = [p \in Procs |-> NoResp]
    /\ calls = [p \in Procs |-> 0]
    /\ result = [p \in Procs |-> Pending]
    /\ default_headers = [c \in Clients |-> ""]

InitFunctions ==
    /\ singular = <<>>
    /\ plural_r = [exc |-> "pending", val |-> <<>>]
    /\ lb_args = [obj |-> NoneVal, file |-> NoFile]
    /\ lb_result = Pending

Init == InitCallers /\ InitFunctions /\ fs = DefaultFs

\* any file system
InitLoad == InitCallers /\ InitFunctions /\ fs \in [Paths -> FileStates]

\* no other caller is inside an activity
Alone(p) == \A q \in Procs \ {p} : pc[q] = "idle"

\* the ten activities, one at a time (the experiment runtime runs an
\* activity to its end before it starts the next)
Next ==
    \E p \in Procs :
        \/ Alone(p) /\ ApplyFromJson(p)
        \/ Alone(p) /\ ApplyFromYaml(p)
        \/ Alone(p) /\ CreateCustomObject(p)
        \/ Alone(p) /\ DeleteCustomObject(p)
        \/ Alone(p) /\ CreateClusterCustomObject(p)
        \/ Alone(p) /\ DeleteClusterCustomObject(p)
        \/ Alone(p) /\ PatchCustomObject(p)
        \/ Alone(p) /\ ReplaceCustomObject(p)
        \/ Alone(p) /\ PatchClusterCustomObject(p)
        \/ Alone(p) /\ ReplaceClusterCustomObject(p)
        \/ Alone(p) /\ Send(p)
        \/ Alone(p) /\ Respond(p)
        \/ Alone(p) /\ Return(p)
Spec == Init /\ [][Next]_vars

\* the eight operations, called concurrently by the callers
NextConcurrent ==
    \E p \in Procs :
        \/ CreateCustomObject(p)
        \/ DeleteCustomObject(p)
        \/ CreateClusterCustomObject(p)
        \/ DeleteClusterCustomObject(p)
        \/ PatchCustomObject(p)
        \/ ReplaceCustomObject(p)
        \/ PatchClusterCustomObject(p)
        \/ ReplaceClusterCustomObject(p)
        \/ Send(p)
        \/ Respond(p)
        \/ Return(p)
SpecConcurrent == Init /\ [][NextConcurrent]_vars

\* get_plural on every input
SpecPlural == Init /\ [][GetPlural]_vars

\* load_body on every input, over every file system
SpecLoad == InitLoad /\ [][LoadBody]_vars

(***************************************************************************)
(* Properties.                                                             *)
(***************************************************************************)
Contains(msg, piece) == \E k \in 1 .. Len(msg) : msg[k] = piece
Applies == {"apply_from_json", "apply_from_yaml"}
Answered(p) == pc[p] = "done" /\ resp[p] # NoResp
IsError(r) == r.status < 200 \/ r.status > 299
Document(p) == inv[p].resource.doc

\* C1: every non-2xx response on delete, patch or replace, and every non-2xx
\* response other than 409 on create, makes the operation raise
\* ActivityFailed with a message that contains the server's reason phrase
\* and the server's raw body, for all eight operations.
C1_ErrorCarriesReasonAndBody ==
    \A p \in Procs :
        (/\ Answered(p)
         /\ inv[p].op \in Operations
         /\ IsError(resp[p])
         /\ ~(inv[p].op \in CreateOps /\ resp[p].status = 409))
        => /\ result[p].exc = "ActivityFailed"
           /\ Contains(result[p].msg, resp[p].reason)
           /\ Contains(result[p].msg, resp[p].body)

\* C2: a create answered with 409 does not raise: it returns the decoded
\* body of the 409 response, and the one create call is the only call made.
C2_ConflictReturnsBody ==
    \A p \in Procs :
        (Answered(p) /\ inv[p].op \in CreateOps /\ resp[p].status = 409)
        => /\ result[p].exc = "none"
           /\ result[p].val = json_loads(resp[p].body).val
           /\ calls[p] = 1
           /\ req[p].method \in {"create_namespaced_custom_object",
                                 "create_cluster_custom_object"}

C2_Witness ==
    \E p \in Procs :
        /\ Answered(p)
        /\ inv[p].entry = "apply_from_yaml"
        /\ inv[p].op = "create_custom_object"
        /\ resp[p].status = 409
        /\ result[p].val = [type |-> "dict", kind |-> "Status", code |-> 409]

\* C3: apply_* on a document whose apiVersion is "<group>/<version>" and
\* whose kind is K issues a namespaced create with group, version,
\* plural = pluralize(K), namespace = metadata.namespace or "default", and
\* the parsed document (the mapping, not the input string) as its body.
C3_ApplyIssuesCreateWithDocument ==
    \A p \in Procs :
        (/\ inv[p].entry \in Applies
         /\ pc[p] \in {"wait", "done"}
         /\ Document(p).apiVersion.has
         /\ Cardinality(Slashes(Document(p).apiVersion.v)) = 1
         /\ ~Missing(Document(p).kind))
        => LET av == Document(p).apiVersion.v
               k == CHOOSE n \in Slashes(av) : TRUE
           IN  /\ req[p].method = "create_namespaced_custom_object"
               /\ req[p].group = SubSeq(av, 1, k - 1)
               /\ req[p].version = SubSeq(av, k + 1, Len(av))
               /\ req[p].plural = get_plural(Document(p).kind.v).val
               /\ req[p].namespace = namespace_of(Document(p))
               /\ req[p].body.type = "dict"
               /\ req[p].body = Document(p)

\* C4: apply_* rejects every document whose apiVersion does not contain
\* exactly one "/" with the ActivityFailed invalid-input failure, before any
\* network call: no such document reaches the create call.
C4_ApiVersionNeedsOneSlash ==
    \A p \in Procs :
        (/\ inv[p].entry \in Applies
         /\ pc[p] # "idle"
         /\ Document(p).apiVersion.has
         /\ Cardinality(Slashes(Document(p).apiVersion.v)) # 1)
        => /\ pc[p] = "done"
           /\ result[p].exc = "ActivityFailed"
           /\ calls[p] = 0
           /\ req[p] = NoReq

C6_ForceForwarded ==
    \A p \in Procs :
        (/\ req[p].method # "none"
         /\ inv[p].op \in {"patch_custom_object", "patch_cluster_custom_object",
                           "replace_custom_object", "replace_cluster_custom_object"})
        => (inv[p].force <=> req[p].force = "true")

\* C7: an invocation of any of the eight operations makes at most one call
\* to the API server; once it has ended it has made exactly one when its
\* body (if any) loaded, whatever the response, and none when the loader
\* failed.
C7_OneCallPerInvocation ==
    \A p \in Procs :
        inv[p].entry \in Operations
        => /\ calls[p] <= 1
           /\ pc[p] = "done"
              => calls[p] = IF \/ inv[p].op \notin BodyOps
                               \/ load_body(inv[p].resource, inv[p].file).exc = "none"
                            THEN 1 ELSE 0

C7_Witness ==
    \E p \in Procs :
        /\ Answered(p)
        /\ inv[p].entry = "replace_custom_object"
        /\ resp[p].status = 502
        /\ result[p].exc = "ActivityFailed"
        /\ calls[p] = 1

\* C8: a request is sent with Content-Type application/json-patch+json if
\* and only if it is a patch request, in every interleaving of operations.
C8_JsonPatchOnlyOnPatch ==
    \A p \in Procs :
        req[p].method # "none"
        => (req[p].content_type = JSON_PATCH
            <=> req[p].method \in {"patch_namespaced_custom_object",
                                   "patch_cluster_custom_object"})

\* C9: load_body with both inputs unset fails with ActivityFailed; with an
\* object (any value but None, the empty mapping included) it returns the
\* object unchanged whatever the file path; otherwise it fails with an
\* ActivityFailed whose message names the path when the path is not an
\* existing regular file, and returns the parsed YAML of the file when it is.
C9_LoadBody ==
    lb_result # Pending
    => LET o == lb_args.obj
           f == lb_args.file
           unset == ~f.set \/ f.path = ""
           regular == f.path \in Paths /\ fs[f.path].kind = "file"
       IN  /\ (o = NoneVal /\ unset) => lb_result.exc = "ActivityFailed"
           /\ o # NoneVal => lb_result = [exc |-> "none", msg |-> <<>>, val |-> o]
           /\ (o = NoneVal /\ ~unset /\ ~regular)
              => /\ lb_result.exc = "ActivityFailed"
                 /\ Contains(lb_result.msg, f.path)
           /\ (o = NoneVal /\ ~unset /\ regular)
              => /\ lb_result.exc = "none"
                 /\ lb_result.val = (IF fs[f.path].text = "spec: 1"
                                     THEN PatchDoc ELSE FileDoc)

C9_Witness ==
    /\ lb_args.obj = EmptyDict
    /\ lb_args.file = File("a.yaml")
    /\ fs["a.yaml"].kind = "file"
    /\ lb_result.val = EmptyDict

\* the rule of the claim, on a lower-cased string
ReferencePlural(low) ==
    IF low = ENDPOINTS THEN low
    ELSE IF Len(low) > 0 /\ low[Len(low)] = "s" THEN low \o <<"e","s">>
    ELSE IF Len(low) > 0 /\ low[Len(low)] = "y"
         THEN SubSeq(low, 1, Len(low) - 1) \o <<"i","e","s">>
    ELSE low \o <<"s">>

\* C10: get_plural returns, for every input string and never with an error,
\* the reference rule applied to the lower-cased input.
C10_PluralTotal ==
    plural_r.exc # "pending"
    => /\ plural_r.exc = "none"
       /\ plural_r.val = ReferencePlural(Lower(singular))

====
